---- MODULE Spec2Model ----
(***************************************************************************)
(* Package lifecycle clients of f5-sdk-python:                             *)
(*   f5sdk/bigip/extension/package/operation.py      (OperationClient)     *)
(*   f5cloudsdk/bigip/toolchain/package/__init__.py  (Operation, legacy)   *)
(* Chunked upload of an RPM, submission of a package-management task,      *)
(* bounded polling of the task, and install / uninstall built from them.   *)
(*                                                                         *)
(* Every blocking call to the device (make_request), to the downloader and *)
(* to the metadata client is one step whose outcome (return or raise) is   *)
(* chosen by the environment.                                              *)
(***************************************************************************)
EXTENDS Integers, Sequences, FiniteSets, TLC

(* ------------------------------ bounds -------------------------------- *)
MaxFileSize == 5
MaxChunk == 3
MaxDependents == 1
MaxConstraints == 2
MaxPackages == 2

(* -------------------------- program constants ------------------------- *)
MAX_CHUNK == 1048576
max_count == 120
sleep_secs == 1

PKG_MGMT_URI == <<"mgmt", "shared", "iapp", "package-management-tasks">>
UPLOAD_URI == <<"mgmt", "shared", "file-transfer", "uploads">>
DOWNLOADS_DIR == <<"var", "config", "rest", "downloads">>
TMP_DIR == <<"tmp">>

VARIABLES
    max_chunk,      \* _upload_rpm: max_chunk (1024 * 1024 in the source, scaled here)
    artifact_size,  \* number of bytes of the file at file_name (once it exists)
    file_exists,    \* the local file file_name exists on disk
    file_name,      \* path of the local file, a sequence of path segments
    op,             \* the method the caller invoked
    pc,             \* position inside the running method
    delete_file,    \* _upload_rpm: kwargs.pop('delete_file', True)
    file_size,      \* _upload_rpm: file_size
    file_pos,       \* _upload_rpm: read position of file_object
    start_index,    \* _upload_rpm: start_index
    uploads,        \* chunk requests answered so far, in order
    in_flight,      \* chunk requests sent whose answer has not arrived
    package_body,   \* body of the task-creation request being prepared
    creates,        \* task-creation requests issued so far, in order
    device_task,    \* id the device gave to the task it created, NoTask before
    task_id,        \* _check_rpm_task_status: task_id
    status_link_uri,\* _check_rpm_task_status: status_link_uri
    count,          \* _check_rpm_task_status: count
    response,       \* _check_rpm_task_status: response of the last poll
    polls,          \* number of poll requests issued
    poll_uris,      \* the URIs the poll requests went to
    sleeps,         \* seconds slept between polls
    reports,        \* number of non-terminal statuses the device reported
    component,      \* self.component
    version,        \* self.version (OperationClient), version argument (Operation)
    download_url,   \* install: download_url
    download_pkg,   \* install: download_pkg
    downloads,      \* calls of download_to_file so far, in order
    t_metadata,     \* Operation: self.t_metadata, the versions of the component in file order
    version_arg,    \* Operation: the version keyword argument, NoArg when not given
    logger,         \* OperationClient: self.logger
    component_dependencies, \* _check_for_dependency: component_dependencies
    warnings,       \* names of the dependents a warning was logged for, in order
    meta_latest,    \* the version metadata_client.get_latest_version() answers with
    component_package_name, \* is_installed: component_package_name
    query_response, \* _check_rpm_exists: query_response, the packageName of each entry
    kwargs,         \* make_request: the keyword arguments of the call
    sent,           \* make_request: what was handed to requests.request
    steps,          \* the stages of the running method entered so far, in order
    fault,          \* which raise ended the call ("none" while none did)
    raised,         \* the exception that left the call, NoError while none did
    result,         \* the value the call returned, NoResult while none did
    legacy          \* the f5cloudsdk Operation run beside the OperationClient: its state

fileVars == <<max_chunk, artifact_size, file_exists, file_name>>
uploadVars == <<delete_file, file_size, file_pos, start_index, uploads, in_flight>>
pollVars == <<package_body, creates, device_task, task_id, status_link_uri, count,
              response, polls, poll_uris, sleeps, reports>>
metaVars == <<t_metadata, version_arg, logger, component_dependencies, warnings>>
requestVars == <<kwargs, sent>>
extraVars == <<meta_latest, component_package_name, query_response, requestVars>>
ctxVars == <<component, version, download_url, download_pkg, downloads, metaVars, extraVars>>
outVars == <<fault, raised, result>>
vars == <<fileVars, op, pc, uploadVars, pollVars, ctxVars, steps, outVars, legacy>>

NoError == [type |-> "none", msg |-> ""]
NoResult == [kind |-> "none"]
NoneResult == [kind |-> "None"]

\* requests.HTTPError / ConnectionError raised by make_request (raise_for_status)
TransportError == [type |-> "HTTPError", msg |-> "transport"]
\* open() of a missing file
FileNotFoundError == [type |-> "FileNotFoundError", msg |-> "no such file"]

Min(a, b) == IF a < b THEN a ELSE b

\* file_name.split('/')[-1]
BaseName(path) == path[Len(path)]

(* --------------------------- _upload_rpm ------------------------------ *)

\* the (file size, chunk size) pairs explored: every small pair, and the
\* source's own chunk size with files around a few chunks
UploadInputs ==
    {<<s, c>> : s \in 0..MaxFileSize, c \in 1..MaxChunk}
    \cup {<<s, MAX_CHUNK>> : s \in {MAX_CHUNK - 1, 2 * MAX_CHUNK, 2621440}}

LocalFiles == {<<"tmp", "pkg-1.0.0.rpm">>}
NoPath == << >>

\* uri = '/mgmt/shared/file-transfer/uploads/%s' % (file_name.split('/')[-1])
UploadUri(name) == Append(UPLOAD_URI, BaseName(name))

\* file_object.read(max_chunk): the bytes left, at most max_chunk of them
ReadLen(pos, size, chunk) == Min(chunk, size - pos)

\* a chunk end that is never clamped to the file size
ChunkEndUnclamped(start, slice_size, size, chunk) == start + chunk

\* lines 99-103: end of the range of the slice just read
ChunkEnd(start, slice_size, size, chunk) ==
    IF slice_size < chunk THEN size ELSE start + slice_size

\* a chunk request whose Content-Length is the length of its body
ChunkRequestLengthOfBody(name, start, slice_size, size, chunk, ok) ==
    [uri |-> UploadUri(name),
     method |-> "POST",
     range_start |-> start,
     range_last |-> ChunkEnd(start, slice_size, size, chunk) - 1,
     range_total |-> size,
     content_length |-> slice_size,
     content_type |-> "application/octet-stream",
     body_len |-> slice_size,
     body_content_type |-> "raw",
     ok |-> ok]

\* lines 105-117: the chunk request
ChunkRequest(name, start, slice_size, size, chunk, ok) ==
    [uri |-> UploadUri(name),
     method |-> "POST",
     range_start |-> start,
     range_last |-> ChunkEnd(start, slice_size, size, chunk) - 1,
     range_total |-> size,
     content_length |-> ChunkEnd(start, slice_size, size, chunk),
     content_type |-> "application/octet-stream",
     body_len |-> slice_size,
     body_content_type |-> "raw",
     ok |-> ok]

\* a removal that ignores the delete_file flag
RemoveAlways(df, exists) == FALSE

\* lines 120-121: if delete_file: os.remove(file_name)
RemoveAfterUpload(df, exists) == IF df THEN FALSE ELSE exists

\* an install that stops when nothing was uploaded
AfterUploadOnlyIfSent ==
    IF op = "_upload_rpm" \/ uploads = << >> THEN "done" ELSE "submit"

\* what follows the return of _upload_rpm
AfterUpload == IF op = "_upload_rpm" THEN "done" ELSE "submit"

\* the caller invokes _upload_rpm(file_name, delete_file=d) directly
Call_upload_rpm ==
    /\ pc = "idle"
    /\ \E d \in BOOLEAN : delete_file' = d
    /\ \E f \in LocalFiles : file_name' = f
    /\ op' = "_upload_rpm"
    /\ pc' = "upload_open"
    /\ UNCHANGED <<max_chunk, artifact_size, file_exists>>
    /\ UNCHANGED <<file_size, file_pos, start_index, uploads, in_flight, pollVars, ctxVars,
                   steps, outVars>>

\* lines 86-93: open the file, read its size, rewind
UploadOpen ==
    /\ pc = "upload_open"
    /\ IF file_exists
         THEN /\ file_size' = artifact_size
              /\ file_pos' = 0
              /\ start_index' = 0
              /\ pc' = "upload_loop"
              /\ UNCHANGED outVars
         ELSE /\ fault' = "open"
              /\ raised' = FileNotFoundError
              /\ pc' = "done"
              /\ UNCHANGED <<file_size, file_pos, start_index, result>>
    /\ steps' = Append(steps, "upload")
    /\ UNCHANGED <<fileVars, op, delete_file, uploads, in_flight, pollVars, ctxVars>>

\* a sender that goes on reading without waiting for the answer
AfterSendNoWait == "upload_loop"

\* lines 111-117: make_request blocks until the device answered
AfterSend == "upload_wait"

\* lines 94-117: one iteration reads a non-empty slice and sends it
UploadChunk ==
    /\ pc = "upload_loop"
    /\ ReadLen(file_pos, file_size, max_chunk) > 0
    /\ LET slice_size == ReadLen(file_pos, file_size, max_chunk) IN
       /\ file_pos' = file_pos + slice_size
       /\ in_flight' = in_flight \cup
              {ChunkRequest(file_name, start_index, slice_size, file_size, max_chunk, FALSE)}
    /\ pc' = AfterSend
    /\ UNCHANGED <<fileVars, op, delete_file, file_size, start_index, uploads, pollVars,
                   ctxVars, steps, outVars>>

\* lines 111-118: the chunk request returns, or raises and ends the upload
UploadResponse ==
    /\ pc = "upload_wait"
    /\ \E req \in in_flight, ok \in BOOLEAN :
         /\ in_flight' = in_flight \ {req}
         /\ uploads' = Append(uploads, [req EXCEPT !.ok = ok])
         /\ IF ok
              THEN /\ start_index' = start_index + req.body_len
                   /\ pc' = "upload_loop"
                   /\ UNCHANGED outVars
              ELSE /\ fault' = "chunk"
                   /\ raised' = TransportError
                   /\ pc' = "done"
                   /\ UNCHANGED <<start_index, result>>
    /\ UNCHANGED <<fileVars, op, delete_file, file_size, file_pos, pollVars, ctxVars, steps>>

\* lines 95-97, 120-121: the read returns nothing, the loop ends, the file is removed
UploadEnd ==
    /\ pc = "upload_loop"
    /\ ReadLen(file_pos, file_size, max_chunk) = 0
    /\ file_exists' = RemoveAfterUpload(delete_file, file_exists)
    /\ pc' = AfterUpload
    /\ result' = IF op = "_upload_rpm" THEN NoneResult ELSE result
    /\ UNCHANGED <<max_chunk, artifact_size, file_name, op, uploadVars, pollVars, ctxVars, steps,
                   fault, raised>>


(* ---------------- task submission and _check_rpm_task_status ---------- *)

TaskIds == {"t1", "t2"}
NoTask == "none"
NonTerminal == {"PENDING", "RUNNING"}
Statuses == NonTerminal \cup {"FINISHED", "FAILED"}
\* the errorMessage texts a device may report for a FAILED task
ErrorMessages == {"Package not found", "Max count exceeded"}
NoResponse == [status |-> "none", errorMessage |-> ""]
PackagePaths == {Append(DOWNLOADS_DIR, "pkg-1.0.0.rpm")}
PackageNames == {"pkg-1.0.0"}
NoBody == [operation |-> "none"]

\* line 146: raise Exception(response['errorMessage'])
TaskFailedError(msg) == [type |-> "Exception", msg |-> msg]
\* line 148: raise Exception('Max count exceeded')
MaxCountError == [type |-> "Exception", msg |-> "Max count exceeded"]

\* a status link that leaves the task id out
StatusLinkUriNoId(id) == PKG_MGMT_URI

\* line 137: status_link_uri = '%s/%s' % (PKG_MGMT_URI, task_id)
StatusLinkUri(id) == Append(PKG_MGMT_URI, id)

\* a loop with no ceiling on its counter
PollDecisionNoCeiling(status, cnt) ==
    IF status = "FINISHED" THEN "return"
    ELSE IF status = "FAILED" THEN "failed"
    ELSE "sleep"

\* a loop that tests the counter before it looks at the status
PollDecisionCeilingFirst(status, cnt) ==
    IF cnt > max_count THEN "timeout"
    ELSE IF status = "FINISHED" THEN "return"
    ELSE IF status = "FAILED" THEN "failed"
    ELSE "sleep"

\* lines 143-150: what one iteration does with the response it got
PollDecision(status, cnt) ==
    IF status = "FINISHED" THEN "return"
    ELSE IF status = "FAILED" THEN "failed"
    ELSE IF cnt > max_count THEN "timeout"
    ELSE "sleep"

\* lines 166-170, 219-223: the body of the task-creation request
InstallBody(package_path) == [operation |-> "INSTALL", packageFilePath |-> package_path]
UninstallBody(package_name) == [operation |-> "UNINSTALL", packageName |-> package_name]

\* the body the running method posts: install builds it from the uploaded
\* file's base name (lines 202-203), the direct calls were given it
SubmitBody ==
    IF op \in {"install", "legacy_install"}
      THEN InstallBody(Append(DOWNLOADS_DIR, download_pkg))
      ELSE package_body

\* lines 204, 286: return {'component': self.component, 'version': self.version}
ComponentVersion(c, v) == [kind |-> "dict", component |-> c, version |-> v]

\* where the running method goes on once _check_rpm_task_status returned
\* (uninstall line 284: the dependency check follows)
\* (_check_rpm_exists line 311: the query response is examined)
AfterPoll ==
    IF op = "uninstall" THEN "check_dependency"
    ELSE IF op = "is_installed" THEN "query_filter"
    ELSE "done"

\* the value the invoked method returns once the poller returned resp
ReturnAfterPoll(o, resp) ==
    IF o = "_check_rpm_task_status" THEN [kind |-> "response", value |-> resp]
    ELSE IF o \in {"install", "legacy_install", "legacy_uninstall"}
      THEN ComponentVersion(component, version)
    ELSE IF o \in {"uninstall", "is_installed"} THEN NoResult
    ELSE NoneResult

\* the caller invokes _check_rpm_task_status(task_id) directly
Call_check_rpm_task_status ==
    /\ pc = "idle"
    /\ \E id \in TaskIds :
         /\ task_id' = id
         /\ device_task' = id
         /\ status_link_uri' = StatusLinkUri(id)
    /\ count' = 0
    /\ op' = "_check_rpm_task_status"
    /\ pc' = "poll"
    /\ UNCHANGED <<fileVars, uploadVars, package_body, creates, response, polls,
                   poll_uris, sleeps, reports, ctxVars, steps, outVars>>

\* the caller invokes _install_rpm(package_path) directly
Call_install_rpm ==
    /\ pc = "idle"
    /\ \E path \in PackagePaths : package_body' = InstallBody(path)
    /\ op' = "_install_rpm"
    /\ pc' = "submit"
    /\ UNCHANGED <<fileVars, uploadVars, creates, device_task, task_id, status_link_uri,
                   count, response, polls, poll_uris, sleeps, reports, ctxVars, steps, outVars>>

\* the caller invokes _uninstall_rpm(package_name) directly
Call_uninstall_rpm ==
    /\ pc = "idle"
    /\ \E name \in PackageNames : package_body' = UninstallBody(name)
    /\ op' = "_uninstall_rpm"
    /\ pc' = "submit"
    /\ UNCHANGED <<fileVars, uploadVars, creates, device_task, task_id, status_link_uri,
                   count, response, polls, poll_uris, sleeps, reports, ctxVars, steps, outVars>>

\* a submission that is tried again after it raised
AfterSubmitErrorRetry == "submit"

\* lines 166-174, 219-226, 302-309: a raise of make_request leaves the method
\* and its caller
AfterSubmitError == "done"

\* an uninstall that goes on to its dependency check after the poller raised
AfterPollErrorCheckAnyway == IF op = "uninstall" THEN "check_dependency" ELSE "done"

\* lines 141-149: a raise inside the polling loop leaves the method and its
\* caller
AfterPollError == "done"

\* lines 171-174, 224-226, 137-140: POST the body to PKG_MGMT_URI; the device
\* creates a task and answers with its id, with which the poller starts
Submit ==
    /\ pc = "submit"
    /\ package_body' = SubmitBody
    /\ creates' = Append(creates, [uri |-> PKG_MGMT_URI, method |-> "POST", body |-> SubmitBody])
    /\ steps' = Append(steps, "submit")
    /\ \/ \E id \in TaskIds :
            /\ device_task' = id
            /\ task_id' = id
            /\ status_link_uri' = StatusLinkUri(id)
            /\ count' = 0
            /\ pc' = "poll"
            /\ UNCHANGED outVars
       \/ /\ fault' = "submit"
          /\ raised' = TransportError
          /\ pc' = AfterSubmitError
          /\ UNCHANGED <<device_task, task_id, status_link_uri, count, result>>
    /\ UNCHANGED <<fileVars, op, uploadVars, response, polls, poll_uris, sleeps, reports,
                   ctxVars>>

\* lines 141-151: one iteration of the polling loop
Poll ==
    /\ pc = "poll"
    /\ polls' = polls + 1
    /\ steps' = IF polls = 0 THEN Append(steps, "poll") ELSE steps
    /\ poll_uris' = poll_uris \cup {status_link_uri}
    /\ \/ \E st \in Statuses, msg \in ErrorMessages :
            LET resp == [status |-> st,
                         errorMessage |-> IF st = "FAILED" THEN msg ELSE ""]
                todo == PollDecision(st, count)
            IN  /\ response' = resp
                /\ reports' = IF st \in NonTerminal THEN reports + 1 ELSE reports
                /\ CASE todo = "return" ->
                          /\ pc' = AfterPoll
                          /\ result' = ReturnAfterPoll(op, resp)
                          /\ UNCHANGED <<count, sleeps, fault, raised>>
                     [] todo = "failed" ->
                          /\ pc' = AfterPollError
                          /\ fault' = "task_failed"
                          /\ raised' = TaskFailedError(resp.errorMessage)
                          /\ UNCHANGED <<count, sleeps, result>>
                     [] todo = "timeout" ->
                          /\ pc' = AfterPollError
                          /\ fault' = "timeout"
                          /\ raised' = MaxCountError
                          /\ UNCHANGED <<count, sleeps, result>>
                     [] todo = "sleep" ->
                          /\ sleeps' = sleeps + sleep_secs
                          /\ count' = count + 1
                          /\ pc' = "poll"
                          /\ UNCHANGED outVars
       \/ /\ fault' = "poll"
          /\ raised' = TransportError
          /\ pc' = AfterPollError
          /\ UNCHANGED <<count, response, sleeps, reports, result>>
    /\ UNCHANGED <<fileVars, op, uploadVars, package_body, creates, device_task, task_id,
                   status_link_uri, ctxVars>>


(* ------------------------ OperationClient.install --------------------- *)

Components == {"as3"}
\* self.logger: the logger keyword argument, None when it was not given
Loggers == {"None", "logger"}
Versions == {"1.0.0", "1.1.0"}
NoUrl == << >>
NoPkg == "none"

\* base name of the RPM of a component version
RpmName(c, v) == <<c, v, "rpm">>

\* metadata_client.get_download_url(): the URL of the RPM of the client's
\* component and version
GetDownloadUrl(c, v) == <<"https:", "", "cdn.example", c, v, RpmName(c, v)>>

\* raised by the metadata client
MetadataError == [type |-> "KeyError", msg |-> "metadata"]
\* raised by download_to_file
DownloadError == [type |-> "HTTPError", msg |-> "download"]

\* a download whose failure does not stop install
AfterDownloadSwallowed(ok) == "upload_open"

\* lines 198-200: upload follows the download unless the download raised
AfterDownload(ok) == IF ok THEN "upload_open" ELSE "done"

\* the caller invokes install()
Call_install ==
    /\ pc = "idle"
    /\ op' = "install"
    /\ pc' = "resolve"
    /\ UNCHANGED <<fileVars, uploadVars, pollVars, ctxVars, steps, outVars>>

\* lines 194-196: ask the metadata client for the URL, derive the file names
InstallResolve ==
    /\ pc = "resolve"
    /\ steps' = Append(steps, "resolve")
    /\ \/ /\ download_url' = GetDownloadUrl(component, version)
          /\ download_pkg' = BaseName(GetDownloadUrl(component, version))
          /\ file_name' = Append(TMP_DIR, BaseName(GetDownloadUrl(component, version)))
          /\ pc' = "download"
          /\ UNCHANGED outVars
       \/ /\ fault' = "resolve"
          /\ raised' = MetadataError
          /\ pc' = "done"
          /\ UNCHANGED <<download_url, download_pkg, file_name, result>>
    /\ UNCHANGED <<max_chunk, artifact_size, file_exists, op, uploadVars, pollVars,
                   component, version, downloads, metaVars, extraVars>>

\* lines 198-200: download_to_file(download_url, tmp_file), then _upload_rpm(tmp_file)
InstallDownload ==
    /\ pc = "download"
    /\ steps' = Append(steps, "download")
    /\ \E ok \in BOOLEAN :
         /\ downloads' = Append(downloads, [url |-> download_url, dest |-> file_name, ok |-> ok])
         /\ pc' = AfterDownload(ok)
         /\ IF ok
              THEN /\ file_exists' = TRUE
                   /\ delete_file' = TRUE
                   /\ UNCHANGED outVars
              ELSE /\ fault' = "download"
                   /\ raised' = DownloadError
                   /\ UNCHANGED <<file_exists, delete_file, result>>
    /\ UNCHANGED <<max_chunk, artifact_size, file_name, op, file_size, file_pos, start_index,
                   uploads, in_flight, pollVars, component, version, download_url, download_pkg,
                   metaVars, extraVars>>


(* ------------------ Operation (f5cloudsdk), install / uninstall ------- *)

NoArg == "absent"
NoVersion == "unset"
VersionArgs == Versions \cup {"latest", NoArg}

\* one entry of t_metadata['components'][component]['versions']
VersionEntry(c, v, latest) ==
    [version |-> v, latest |-> latest, downloadUrl |-> GetDownloadUrl(c, v),
     packageName |-> <<c, v>>]

\* the metadata contents explored: the versions of the component in every
\* order, each with or without the latest flag
Metadata(c) ==
    {<<VersionEntry(c, v, b)>> : v \in Versions, b \in BOOLEAN}
    \cup {<<VersionEntry(c, v, b), VersionEntry(c, w, d)>> :
             <<v, w>> \in {vw \in Versions \X Versions : vw[1] # vw[2]},
             <<b, d>> \in BOOLEAN \X BOOLEAN}

\* lines 28-29: the entries whose latest flag is set, in file order
FlaggedLatest(meta) == SelectSeq(meta, LAMBDA e : e.latest)

\* a latest version that is taken to be the last entry of the file
LastListedVersion(meta) == meta[Len(meta)].version

\* line 31: list(latest.keys())[0]
GetLatestVersion(meta) == FlaggedLatest(meta)[1].version

HasVersion(meta, v) == \E i \in 1..Len(meta) : meta[i].version = v

\* lines 35-39: the entry of a version, 'latest' standing for the latest version
GetVersionMetadata(meta, v) ==
    LET key == IF v = "latest" THEN GetLatestVersion(meta) ELSE v
    IN  meta[CHOOSE i \in 1..Len(meta) : meta[i].version = key]

\* line 31 on metadata without a latest flag
IndexError == [type |-> "IndexError", msg |-> "list index out of range"]
\* line 39 on a version the metadata does not list
KeyError == [type |-> "KeyError", msg |-> "version"]

\* lines 123, 153: version = kwargs.pop('version', self._get_latest_version())
VersionOrLatest(meta, arg) == IF arg = NoArg THEN GetLatestVersion(meta) ELSE arg

\* the caller invokes Operation.install(), with or without version=...
Call_legacy_install ==
    /\ pc = "idle"
    /\ \E arg \in VersionArgs : version_arg' = arg
    /\ op' = "legacy_install"
    /\ pc' = "legacy_resolve"
    /\ UNCHANGED <<fileVars, uploadVars, pollVars, component, version, download_url,
                   download_pkg, downloads, t_metadata, logger, component_dependencies,
                   warnings, extraVars, steps, outVars>>

\* the caller invokes Operation.uninstall(), with or without version=...
Call_legacy_uninstall ==
    /\ pc = "idle"
    /\ \E arg \in VersionArgs : version_arg' = arg
    /\ op' = "legacy_uninstall"
    /\ pc' = "legacy_resolve"
    /\ UNCHANGED <<fileVars, uploadVars, pollVars, component, version, download_url,
                   download_pkg, downloads, t_metadata, logger, component_dependencies,
                   warnings, extraVars, steps, outVars>>

\* install lines 122-128, uninstall lines 152-156: take the version, look its
\* entry up, derive the names used by the later stages
LegacyResolve ==
    /\ pc = "legacy_resolve"
    /\ steps' = Append(steps, "resolve")
    /\ IF FlaggedLatest(t_metadata) = << >>
         THEN /\ fault' = "no_latest"
              /\ raised' = IndexError
              /\ pc' = "done"
              /\ UNCHANGED <<version, download_url, download_pkg, file_name, package_body, result>>
         ELSE LET v == VersionOrLatest(t_metadata, version_arg) IN
              /\ version' = v
              /\ IF v # "latest" /\ ~HasVersion(t_metadata, v)
                   THEN /\ fault' = "no_version"
                        /\ raised' = KeyError
                        /\ pc' = "done"
                        /\ UNCHANGED <<download_url, download_pkg, file_name, package_body, result>>
                   ELSE LET entry == GetVersionMetadata(t_metadata, v) IN
                        IF op = "legacy_install"
                          THEN /\ download_url' = entry.downloadUrl
                               /\ download_pkg' = BaseName(entry.downloadUrl)
                               /\ file_name' = Append(TMP_DIR, BaseName(entry.downloadUrl))
                               /\ pc' = "download"
                               /\ UNCHANGED <<package_body, outVars>>
                          ELSE /\ package_body' = UninstallBody(entry.packageName)
                               /\ pc' = "submit"
                               /\ UNCHANGED <<download_url, download_pkg, file_name, outVars>>
    /\ UNCHANGED <<max_chunk, artifact_size, file_exists, op, uploadVars, creates, device_task,
                   task_id, status_link_uri, count, response, polls, poll_uris, sleeps,
                   reports, component, downloads, metaVars, extraVars>>


(* ----------------------- OperationClient.uninstall -------------------- *)

\* metadata_client.get_package_name(): the package name of the client's
\* component and version
GetPackageName(c, v) == <<c, v>>

\* the order of the version strings
VersionRank(v) == CASE v = "1.0.0" -> 1 [] v = "1.1.0" -> 2

Operations == {">=", "<"}

\* misc_utils.compare_versions(version, version2, operation)
CompareVersions(v, w, operation) ==
    CASE operation = ">=" -> VersionRank(v) >= VersionRank(w)
      [] operation = "<" -> VersionRank(v) < VersionRank(w)

\* one entry of dependency['versions']
Constraints == [version : Versions, operation : Operations]

ConstraintLists == UNION {[1..n -> Constraints] : n \in 0..MaxConstraints}

\* what get_component_dependencies() may return: dependents 1..n, in dict
\* order, each with its list of version constraints
DependencySets ==
    UNION {[1..n -> [versions : ConstraintLists]] : n \in 0..MaxDependents}

\* a match test satisfied by a single matching constraint
AnyConstraintMatches(v, dependency) ==
    \E i \in 1..Len(dependency.versions) :
        CompareVersions(v, dependency.versions[i].version, dependency.versions[i].operation)

\* lines 249-256: len(matches) == len(versions)
AllConstraintsMatch(v, dependency) ==
    Len(SelectSeq(dependency.versions,
                  LAMBDA i : CompareVersions(v, i.version, i.operation)))
        = Len(dependency.versions)

\* the dependents (by name) that _check_for_dependency finds matching, in order
RECURSIVE Matching(_, _, _)
Matching(v, deps, n) ==
    IF n > Len(deps) THEN << >>
    ELSE IF AllConstraintsMatch(v, deps[n]) THEN <<n>> \o Matching(v, deps, n + 1)
    ELSE Matching(v, deps, n + 1)

\* line 260 with self.logger None
AttributeError == [type |-> "AttributeError", msg |-> "'NoneType' object has no attribute 'warning'"]

\* the caller invokes uninstall()
Call_uninstall ==
    /\ pc = "idle"
    /\ op' = "uninstall"
    /\ pc' = "uninstall_resolve"
    /\ UNCHANGED <<fileVars, uploadVars, pollVars, ctxVars, steps, outVars>>

\* lines 280-281: ask the metadata client for the package name
UninstallResolve ==
    /\ pc = "uninstall_resolve"
    /\ steps' = Append(steps, "resolve")
    /\ \/ /\ package_body' = UninstallBody(GetPackageName(component, version))
          /\ pc' = "submit"
          /\ UNCHANGED outVars
       \/ /\ fault' = "resolve"
          /\ raised' = MetadataError
          /\ pc' = "done"
          /\ UNCHANGED <<package_body, result>>
    /\ UNCHANGED <<fileVars, op, uploadVars, creates, device_task, task_id, status_link_uri,
                   count, response, polls, poll_uris, sleeps, reports, ctxVars>>

\* lines 247-260, 284-286: fetch the dependents, log a warning for each one
\* whose constraints all match, return the dict
CheckForDependency ==
    /\ pc = "check_dependency"
    /\ steps' = Append(steps, "dependency")
    /\ pc' = "done"
    /\ \/ \E deps \in DependencySets :
            LET matched == Matching(version, deps, 1) IN
            /\ component_dependencies' = deps
            /\ IF matched # << >> /\ logger = "None"
                 THEN /\ fault' = "logger"
                      /\ raised' = AttributeError
                      /\ UNCHANGED <<warnings, result>>
                 ELSE /\ warnings' = matched
                      /\ result' = ComponentVersion(component, version)
                      /\ UNCHANGED <<fault, raised>>
       \/ /\ fault' = "dependencies"
          /\ raised' = MetadataError
          /\ UNCHANGED <<component_dependencies, warnings, result>>
    /\ UNCHANGED <<fileVars, op, uploadVars, pollVars, component, version, download_url,
                   download_pkg, downloads, t_metadata, version_arg, logger, extraVars>>


(* ---------------------- OperationClient.is_installed ------------------ *)

\* package names are written character by character
Digits == {"0", "1", "2", "3", "4", "5", "6", "7", "8", "9"}
EmptyString == << >>

\* metadata_client.get_component_package_name()
GetComponentPackageName(c) == <<"a", "s">>

\* metadata_client.get_latest_version()
LatestVersions == {<<"1", ".", "2", ".", "0">>, <<"1", ".", "3", ".", "0">>}

\* the package names a device may list:
\*   as-1.2.0   as-1.2.0-3   ts-1.0.1   as   as3-1.2.0   as-12345
InstalledNames ==
    {<<"a", "s", "-", "1", ".", "2", ".", "0">>,
     <<"a", "s", "-", "1", ".", "2", ".", "0", "-", "3">>,
     <<"t", "s", "-", "1", ".", "0", ".", "1">>,
     <<"a", "s">>,
     <<"a", "s", "3", "-", "1", ".", "2", ".", "0">>,
     <<"a", "s", "-", "1", "2", "3", "4", "5">>}

\* response['queryResponse'], each entry reduced to its packageName
QueryResponses == UNION {[1..n -> InstalledNames] : n \in 0..MaxPackages}

\* sub in s
Contains(s, sub) ==
    \E i \in 1..(Len(s) - Len(sub) + 1) : SubSeq(s, i, i + Len(sub) - 1) = sub

\* s[i..j] is a non-empty run of digits
DigitRun(s, i, j) == i <= j /\ j <= Len(s) /\ \A k \in i..j : s[k] \in Digits

\* the ways '[0-9]+.[0-9]+.[0-9]+' matches s from position i: the ends of the
\* three digit groups (RunEnds: where a digit group starting at i may end), the
\* two '.' each taking any one character
RunEnds(s, i) == {j \in i..Len(s) : DigitRun(s, i, j)}

GroupEnds(s, i) ==
    UNION {UNION {{<<a, b, c>> : c \in RunEnds(s, b + 2)} : b \in RunEnds(s, a + 2)} :
           a \in RunEnds(s, i)}

\* greedy groups: the longest first group, then the longest second, then third
Prefer(t, u) ==
    \/ t[1] > u[1]
    \/ t[1] = u[1] /\ t[2] > u[2]
    \/ t[1] = u[1] /\ t[2] = u[2] /\ t[3] >= u[3]

\* compiled_pattern.search(package_name) finds a match
HasMatch(s) == \E i \in 1..Len(s) : GroupEnds(s, i) # {}

\* lines 319-322: the text of the leftmost match
GetVersionNumberFromPackageName(s) ==
    LET start == CHOOSE i \in 1..Len(s) :
                     /\ GroupEnds(s, i) # {}
                     /\ \A j \in 1..(i - 1) : GroupEnds(s, j) = {}
        ends == CHOOSE t \in GroupEnds(s, start) : \A u \in GroupEnds(s, start) : Prefer(t, u)
    IN  SubSeq(s, start, ends[3])

\* lines 312-313: the entries whose packageName contains the component package name
MatchingPackages(qr, cpn) == SelectSeq(qr, LAMBDA name : Contains(name, cpn))

\* a filter that takes the first match however many there are
FirstMatchCounts(matching) == Len(matching) >= 1

\* lines 314-315: the version is extracted only from a single match
SingleMatch(matching) == Len(matching) = 1

\* a latest_version that repeats the installed version when there is one
LatestVersionFieldFromInstalled(rpm_version, latest) ==
    IF rpm_version # EmptyString THEN rpm_version ELSE latest

\* line 348: 'latest_version': self._metadata_client.get_latest_version()
LatestVersionField(rpm_version, latest) == latest

\* lines 345-349: version_data
VersionData(rpm_version, latest) ==
    [kind |-> "version_data",
     installed |-> rpm_version # EmptyString,
     installed_version |-> rpm_version,
     latest_version |-> LatestVersionField(rpm_version, latest)]

QueryBody == [operation |-> "QUERY"]

\* the caller invokes is_installed()
Call_is_installed ==
    /\ pc = "idle"
    /\ op' = "is_installed"
    /\ pc' = "query_resolve"
    /\ UNCHANGED <<fileVars, uploadVars, pollVars, ctxVars, steps, outVars>>

\* lines 343-344, 302-305: ask the metadata client for the component package
\* name, prepare the QUERY body
QueryResolve ==
    /\ pc = "query_resolve"
    /\ steps' = Append(steps, "resolve")
    /\ \/ /\ component_package_name' = GetComponentPackageName(component)
          /\ package_body' = QueryBody
          /\ pc' = "submit"
          /\ UNCHANGED outVars
       \/ /\ fault' = "resolve"
          /\ raised' = MetadataError
          /\ pc' = "done"
          /\ UNCHANGED <<component_package_name, package_body, result>>
    /\ UNCHANGED <<fileVars, op, uploadVars, creates, device_task, task_id, status_link_uri,
                   count, response, polls, poll_uris, sleeps, reports, component, version,
                   download_url, download_pkg, downloads, metaVars, meta_latest, query_response,
                   requestVars>>

\* lines 311-315, 345-350: filter the queryResponse of the FINISHED task,
\* extract the version of a single match, add the latest version, return
QueryFilter ==
    /\ pc = "query_filter"
    /\ steps' = Append(steps, "filter")
    /\ pc' = "done"
    /\ \E qr \in QueryResponses :
         LET matching == MatchingPackages(qr, component_package_name) IN
         /\ query_response' = qr
         /\ IF SingleMatch(matching) /\ ~HasMatch(matching[1])
              THEN /\ fault' = "no_match"
                   /\ raised' = AttributeError
                   /\ UNCHANGED result
              ELSE LET rpm_version == IF SingleMatch(matching)
                                        THEN GetVersionNumberFromPackageName(matching[1])
                                        ELSE EmptyString
                   IN  \/ /\ result' = VersionData(rpm_version, meta_latest)
                          /\ UNCHANGED <<fault, raised>>
                       \/ /\ fault' = "latest"
                          /\ raised' = MetadataError
                          /\ UNCHANGED result
    /\ UNCHANGED <<fileVars, op, uploadVars, pollVars, component, version, download_url,
                   download_pkg, downloads, metaVars, meta_latest, component_package_name,
                   requestVars>>

(* -------------------- ManagementClient.make_request ------------------- *)

HeaderNames == {"X-F5-Auth-Token", "User-Agent", "Content-Type"}

\* the values a caller may give a header
CallerValues(name) ==
    IF name = "Content-Type" THEN {"application/x-custom", "application/json"}
    ELSE {"caller"}

\* a dict of headers: a function from the names it holds to their values
HeaderDicts ==
    UNION {{h \in [S -> UNION {CallerValues(n) : n \in HeaderNames}] :
               \A n \in S : h[n] \in CallerValues(n)} : S \in SUBSET HeaderNames}

NoHeaders == [n \in {} |-> ""]

\* body: None, an empty dict, a dict with entries, a non-empty byte string
Bodies == {"None", "empty_dict", "dict", "bytes"}
\* 'if body': None and the empty dict are false
Truthy(body) == body \in {"dict", "bytes"}

\* body_content_type: not given, 'json', 'raw'
BodyContentTypes == {"absent", "json", "raw"}
\* kwargs.pop('body_content_type', 'json')
BodyContentType(kw) == IF kw.body_content_type = "absent" THEN "json" ELSE kw.body_content_type

Methods == {"absent", "GET", "POST", "post"}
\* kwargs.pop('method', 'GET').lower()
Method(kw) ==
    CASE kw.method \in {"absent", "GET"} -> "get"
      [] kw.method \in {"POST", "post"} -> "post"

\* the keyword arguments of a call
KwargsSet ==
    [method : Methods, headers : HeaderDicts, body : Bodies,
     body_content_type : BodyContentTypes]

NoKwargs == [method |-> "absent", headers |-> NoHeaders, body |-> "None",
             body_content_type |-> "absent"]
NoRequest == [method |-> "none"]

\* dict.update: the entries of e replace or extend those of d
Update(d, e) ==
    [n \in DOMAIN d \cup DOMAIN e |-> IF n \in DOMAIN e THEN e[n] ELSE d[n]]

\* line 196: the headers every request starts with
DefaultHeaders ==
    [n \in {"X-F5-Auth-Token", "User-Agent"} |->
        IF n = "X-F5-Auth-Token" THEN "token" ELSE "f5cloudsdk"]

JsonContentType == [n \in {"Content-Type"} |-> "application/json"]

\* json.dumps(body)
JsonDumps(body) == [json_text_of |-> body]

\* lines 196-204: the headers sent
RequestHeaders(kw) ==
    LET headers == Update(DefaultHeaders, kw.headers)
    IN  IF Truthy(kw.body) /\ BodyContentType(kw) = "json"
          THEN Update(headers, JsonContentType)
          ELSE headers

\* lines 200-204: the data sent
RequestData(kw) ==
    IF Truthy(kw.body) /\ BodyContentType(kw) = "json"
      THEN JsonDumps(kw.body)
      ELSE [raw |-> kw.body]

\* lines 193-215: make_request builds the request and hands it to requests.request
Call_make_request ==
    /\ pc = "idle"
    /\ op' = "make_request"
    /\ sent' = [method |-> Method(kwargs),
                headers |-> RequestHeaders(kwargs),
                data |-> RequestData(kwargs)]
    /\ pc' = "request_sent"
    /\ UNCHANGED <<fileVars, uploadVars, pollVars, component, version, download_url,
                   download_pkg, downloads, metaVars, meta_latest, component_package_name,
                   query_response, kwargs, steps, outVars>>

\* lines 216-219: raise_for_status, then the decoded JSON is returned
RequestResponse ==
    /\ pc = "request_sent"
    /\ pc' = "done"
    /\ \/ /\ result' = [kind |-> "json"]
          /\ UNCHANGED <<fault, raised>>
       \/ /\ fault' = "http"
          /\ raised' = TransportError
          /\ UNCHANGED result
    /\ UNCHANGED <<fileVars, op, uploadVars, pollVars, ctxVars, steps>>

(* ------- Operation (f5cloudsdk): _upload_rpm, _install_rpm, poller ----- *)

\* f5cloudsdk/bigip/toolchain/package: PKG_MGMT_URI and the upload collection
LEGACY_PKG_MGMT_URI == <<"mgmt", "shared", "iapp", "package-management-tasks">>
LEGACY_UPLOAD_URI == <<"mgmt", "shared", "file-transfer", "uploads">>
Legacy_max_count == 120
Legacy_sleep_secs == 1

\* an Operation on which no method was called yet
LegacyIdle ==
    [op |-> "none", pc |-> "idle", file_name |-> NoPath, delete_file |-> TRUE,
     file_exists |-> FALSE, file_size |-> 0, file_pos |-> 0, start_index |-> 0,
     uploads |-> << >>, in_flight |-> {}, package_body |-> NoBody, creates |-> << >>,
     task_id |-> NoTask, status_link_uri |-> NoPath, count |-> 0,
     status_response |-> NoResponse, polls |-> 0, poll_uris |-> {}, sleeps |-> 0,
     fault |-> "none", raised |-> NoError, result |-> NoResult]

\* line 54: uri = '/mgmt/shared/file-transfer/uploads/%s' % (file_name.split('/')[-1])
LegacyUploadUri(name) == Append(LEGACY_UPLOAD_URI, BaseName(name))

\* lines 66-70: end of the range of the slice just read
LegacyChunkEnd(start, slice_size, size, chunk) ==
    IF slice_size < chunk THEN size ELSE start + slice_size

\* lines 72-84: the chunk request
LegacyChunkRequest(name, start, slice_size, size, chunk, ok) ==
    [uri |-> LegacyUploadUri(name),
     method |-> "POST",
     range_start |-> start,
     range_last |-> LegacyChunkEnd(start, slice_size, size, chunk) - 1,
     range_total |-> size,
     content_length |-> LegacyChunkEnd(start, slice_size, size, chunk),
     content_type |-> "application/octet-stream",
     body_len |-> slice_size,
     body_content_type |-> "raw",
     ok |-> ok]

\* line 92: status_link_uri = '%s/%s' % (PKG_MGMT_URI, task_id)
LegacyStatusLinkUri(id) == Append(LEGACY_PKG_MGMT_URI, id)

\* a loop that tests the counter before it looks at the status
LegacyPollDecisionCeilingFirst(status, cnt) ==
    IF cnt > Legacy_max_count THEN "timeout"
    ELSE IF status = "FINISHED" THEN "return"
    ELSE IF status = "FAILED" THEN "failed"
    ELSE "sleep"

\* a loop that gives up one poll early
LegacyPollDecisionAtCeiling(status, cnt) ==
    IF status = "FINISHED" THEN "return"
    ELSE IF status = "FAILED" THEN "failed"
    ELSE IF cnt >= Legacy_max_count THEN "timeout"
    ELSE "sleep"

\* lines 98-103: what one iteration does with the response it got
LegacyPollDecision(status, cnt) ==
    IF status = "FINISHED" THEN "return"
    ELSE IF status = "FAILED" THEN "failed"
    ELSE IF cnt > Legacy_max_count THEN "timeout"
    ELSE "sleep"

\* the caller invokes a method of the Operation
LegacyCall(l, call) ==
    CASE call.op = "_upload_rpm" ->
            [l EXCEPT !.op = call.op, !.pc = "upload_open", !.file_name = call.file_name,
                      !.delete_file = call.delete_file]
      [] call.op \in {"_install_rpm", "_uninstall_rpm"} ->
            [l EXCEPT !.op = call.op, !.pc = "submit", !.package_body = call.package_body]
      [] call.op = "_check_rpm_task_status" ->
            [l EXCEPT !.op = call.op, !.pc = "poll", !.task_id = call.task_id,
                      !.status_link_uri = LegacyStatusLinkUri(call.task_id), !.count = 0]

\* lines 56-60: open the file, read its size, rewind
LegacyUploadOpen(l) ==
    IF l.file_exists
      THEN [l EXCEPT !.file_size = artifact_size, !.file_pos = 0, !.start_index = 0,
                     !.pc = "upload_loop"]
      ELSE [l EXCEPT !.fault = "open", !.raised = FileNotFoundError, !.pc = "done"]

\* lines 61-84: one iteration reads a non-empty slice and sends it
LegacyUploadChunk(l) ==
    LET slice_size == ReadLen(l.file_pos, l.file_size, max_chunk)
    IN  [l EXCEPT !.file_pos = l.file_pos + slice_size,
                  !.in_flight = l.in_flight \cup
                      {LegacyChunkRequest(l.file_name, l.start_index, slice_size,
                                          l.file_size, max_chunk, FALSE)},
                  !.pc = "upload_wait"]

\* lines 78-85: the chunk request returns, or raises and ends the upload
LegacyUploadResponse(l, ok) ==
    LET req == CHOOSE r \in l.in_flight : TRUE
        answered == [l EXCEPT !.in_flight = l.in_flight \ {req},
                              !.uploads = Append(l.uploads, [req EXCEPT !.ok = ok])]
    IN  IF ok
          THEN [answered EXCEPT !.start_index = l.start_index + req.body_len,
                                !.pc = "upload_loop"]
          ELSE [answered EXCEPT !.fault = "chunk", !.raised = TransportError, !.pc = "done"]

\* lines 62-64, 87-88: the read returns nothing, the loop ends, the file is removed
LegacyUploadEnd(l) ==
    [l EXCEPT !.file_exists = IF l.delete_file THEN FALSE ELSE l.file_exists,
              !.pc = "done",
              !.result = NoneResult]

\* lines 110-118, 141-148: POST the body to PKG_MGMT_URI, start the poller
\* with the id of the answer
LegacySubmit(l, raise, id) ==
    LET posted == [l EXCEPT !.creates = Append(l.creates,
                       [uri |-> LEGACY_PKG_MGMT_URI, method |-> "POST",
                        body |-> l.package_body])]
    IN  IF raise
          THEN [posted EXCEPT !.fault = "submit", !.raised = TransportError, !.pc = "done"]
          ELSE [posted EXCEPT !.task_id = id, !.status_link_uri = LegacyStatusLinkUri(id),
                              !.count = 0, !.pc = "poll"]

\* lines 96-106: one iteration of the polling loop
LegacyPoll(l, raise, resp) ==
    LET asked == [l EXCEPT !.polls = l.polls + 1,
                           !.poll_uris = l.poll_uris \cup {l.status_link_uri}]
        todo == LegacyPollDecision(resp.status, l.count)
    IN  IF raise
          THEN [asked EXCEPT !.fault = "poll", !.raised = TransportError, !.pc = "done"]
          ELSE CASE todo = "return" ->
                      [asked EXCEPT !.status_response = resp, !.pc = "done",
                                    !.result = IF l.op = "_check_rpm_task_status"
                                                 THEN [kind |-> "status", value |-> resp.status]
                                                 ELSE NoneResult]
                 [] todo = "failed" ->
                      [asked EXCEPT !.status_response = resp, !.pc = "done",
                                    !.fault = "task_failed",
                                    !.raised = [type |-> "Exception", msg |-> resp.errorMessage]]
                 [] todo = "timeout" ->
                      [asked EXCEPT !.status_response = resp, !.pc = "done",
                                    !.fault = "timeout",
                                    !.raised = [type |-> "Exception", msg |-> "Max count exceeded"]]
                 [] todo = "sleep" ->
                      [asked EXCEPT !.status_response = resp,
                                    !.sleeps = l.sleeps + Legacy_sleep_secs,
                                    !.count = l.count + 1]

\* the Operation's next step, given what its caller and the device do
LegacyStep(l, env) ==
    CASE l.pc = "idle" -> LegacyCall(l, env)
      [] l.pc = "upload_open" -> LegacyUploadOpen(l)
      [] l.pc = "upload_loop" ->
            IF ReadLen(l.file_pos, l.file_size, max_chunk) > 0
              THEN LegacyUploadChunk(l)
              ELSE LegacyUploadEnd(l)
      [] l.pc = "upload_wait" -> LegacyUploadResponse(l, env.chunk_ok)
      [] l.pc = "submit" -> LegacySubmit(l, env.submit_raised, env.id)
      [] l.pc = "poll" -> LegacyPoll(l, env.poll_raised, env.response)
      [] l.pc = "done" -> l

\* what the caller and the device did in the OperationClient's step: the call
\* and its arguments, the answers to the chunk, submission and poll requests
SameEnvironment ==
    [op |-> op',
     file_name |-> file_name',
     delete_file |-> delete_file',
     package_body |-> package_body',
     task_id |-> task_id',
     chunk_ok |-> IF uploads' = << >> THEN TRUE ELSE uploads'[Len(uploads')].ok,
     submit_raised |-> fault' = "submit",
     id |-> device_task',
     poll_raised |-> fault' = "poll",
     response |-> response']

\* the Operation takes its step under the same environment
LegacyFollows == legacy' = LegacyStep(legacy, SameEnvironment)

(* ------------------------------ upload only --------------------------- *)
InitOut ==
    /\ fault = "none"
    /\ raised = NoError
    /\ result = NoResult
    /\ legacy = LegacyIdle

InitUploadLocals ==
    /\ delete_file = TRUE
    /\ file_size = 0
    /\ file_pos = 0
    /\ start_index = 0
    /\ uploads = << >>
    /\ in_flight = {}

\* no call of make_request under way
InitNoRequest ==
    /\ kwargs = NoKwargs
    /\ sent = NoRequest

\* nothing asked of the metadata client or of the device yet
InitExtra ==
    /\ meta_latest = EmptyString
    /\ component_package_name = EmptyString
    /\ query_response = << >>
    /\ InitNoRequest

InitCtx ==
    /\ component \in Components
    /\ version \in Versions
    /\ download_url = NoUrl
    /\ download_pkg = NoPkg
    /\ downloads = << >>
    /\ steps = << >>
    /\ t_metadata = << >>
    /\ version_arg = NoArg
    /\ logger \in Loggers
    /\ component_dependencies = << >>
    /\ warnings = << >>
    /\ InitExtra

InitPollLocals ==
    /\ package_body = NoBody
    /\ creates = << >>
    /\ device_task = NoTask
    /\ task_id = NoTask
    /\ status_link_uri = NoPath
    /\ count = 0
    /\ response = NoResponse
    /\ polls = 0
    /\ poll_uris = {}
    /\ sleeps = 0
    /\ reports = 0

\* a local file that plays no part
InitNoFile ==
    /\ artifact_size = 0
    /\ max_chunk = MAX_CHUNK
    /\ file_exists = FALSE
    /\ file_name = NoPath

InitUpload ==
    /\ \E in \in UploadInputs :
         /\ artifact_size = in[1]
         /\ max_chunk = in[2]
    /\ file_exists \in BOOLEAN
    /\ file_name = NoPath
    /\ op = "none"
    /\ pc = "idle"
    /\ InitUploadLocals
    /\ InitPollLocals
    /\ InitCtx
    /\ InitOut

NextUpload ==
    \/ Call_upload_rpm /\ UNCHANGED legacy
    \/ UploadOpen /\ UNCHANGED legacy
    \/ UploadChunk /\ UNCHANGED legacy
    \/ UploadResponse /\ UNCHANGED legacy
    \/ UploadEnd /\ UNCHANGED legacy

SpecUpload == InitUpload /\ [][NextUpload]_vars

(* ------------------------------- install ------------------------------ *)
InitInstall == InitUpload

NextInstall ==
    \/ Call_install /\ UNCHANGED legacy
    \/ InstallResolve /\ UNCHANGED legacy
    \/ InstallDownload /\ UNCHANGED legacy
    \/ UploadOpen /\ UNCHANGED legacy
    \/ UploadChunk /\ UNCHANGED legacy
    \/ UploadResponse /\ UNCHANGED legacy
    \/ UploadEnd /\ UNCHANGED legacy
    \/ Submit /\ UNCHANGED legacy
    \/ Poll /\ UNCHANGED legacy

SpecInstall == InitInstall /\ [][NextInstall]_vars

(* -------------------- Operation: install and uninstall ---------------- *)
InitLegacy ==
    /\ artifact_size \in {0, MaxFileSize}
    /\ max_chunk = MaxChunk
    /\ file_exists = FALSE
    /\ file_name = NoPath
    /\ op = "none"
    /\ pc = "idle"
    /\ InitUploadLocals
    /\ InitPollLocals
    /\ component \in Components
    /\ version = NoVersion
    /\ download_url = NoUrl
    /\ download_pkg = NoPkg
    /\ downloads = << >>
    /\ steps = << >>
    /\ t_metadata \in Metadata(component)
    /\ version_arg = NoArg
    /\ logger = "None"
    /\ component_dependencies = << >>
    /\ warnings = << >>
    /\ InitExtra
    /\ InitOut

NextLegacy ==
    \/ Call_legacy_install /\ UNCHANGED legacy
    \/ Call_legacy_uninstall /\ UNCHANGED legacy
    \/ LegacyResolve /\ UNCHANGED legacy
    \/ InstallDownload /\ UNCHANGED legacy
    \/ UploadOpen /\ UNCHANGED legacy
    \/ UploadChunk /\ UNCHANGED legacy
    \/ UploadResponse /\ UNCHANGED legacy
    \/ UploadEnd /\ UNCHANGED legacy
    \/ Submit /\ UNCHANGED legacy
    \/ Poll /\ UNCHANGED legacy

SpecLegacy == InitLegacy /\ [][NextLegacy]_vars

(* ---------------------- OperationClient.uninstall --------------------- *)
InitUninstall ==
    /\ InitNoFile
    /\ op = "none"
    /\ pc = "idle"
    /\ InitUploadLocals
    /\ InitPollLocals
    /\ InitCtx
    /\ InitOut

NextUninstall ==
    \/ Call_uninstall /\ UNCHANGED legacy
    \/ UninstallResolve /\ UNCHANGED legacy
    \/ Submit /\ UNCHANGED legacy
    \/ Poll /\ UNCHANGED legacy
    \/ CheckForDependency /\ UNCHANGED legacy

SpecUninstall == InitUninstall /\ [][NextUninstall]_vars

(* --------------------- OperationClient.is_installed ------------------- *)
InitQuery ==
    /\ InitNoFile
    /\ op = "none"
    /\ pc = "idle"
    /\ InitUploadLocals
    /\ InitPollLocals
    /\ component \in Components
    /\ version \in Versions
    /\ download_url = NoUrl
    /\ download_pkg = NoPkg
    /\ downloads = << >>
    /\ steps = << >>
    /\ t_metadata = << >>
    /\ version_arg = NoArg
    /\ logger = "logger"
    /\ component_dependencies = << >>
    /\ warnings = << >>
    /\ meta_latest \in LatestVersions
    /\ component_package_name = EmptyString
    /\ query_response = << >>
    /\ InitNoRequest
    /\ InitOut

NextQuery ==
    \/ Call_is_installed /\ UNCHANGED legacy
    \/ QueryResolve /\ UNCHANGED legacy
    \/ Submit /\ UNCHANGED legacy
    \/ Poll /\ UNCHANGED legacy
    \/ QueryFilter /\ UNCHANGED legacy

SpecQuery == InitQuery /\ [][NextQuery]_vars

(* --------------- install, uninstall and is_installed ------------------ *)
\* one client, one call of one of its three operations
InitClient ==
    /\ artifact_size = MaxFileSize
    /\ max_chunk = MaxChunk
    /\ file_exists = FALSE
    /\ file_name = NoPath
    /\ op = "none"
    /\ pc = "idle"
    /\ InitUploadLocals
    /\ InitPollLocals
    /\ component \in Components
    /\ version \in Versions
    /\ download_url = NoUrl
    /\ download_pkg = NoPkg
    /\ downloads = << >>
    /\ steps = << >>
    /\ t_metadata = << >>
    /\ version_arg = NoArg
    /\ logger = "logger"
    /\ component_dependencies = << >>
    /\ warnings = << >>
    /\ meta_latest = <<"1", ".", "3", ".", "0">>
    /\ component_package_name = EmptyString
    /\ query_response = << >>
    /\ InitNoRequest
    /\ InitOut

NextClient ==
    \/ Call_install /\ UNCHANGED legacy
    \/ InstallResolve /\ UNCHANGED legacy
    \/ InstallDownload /\ UNCHANGED legacy
    \/ UploadOpen /\ UNCHANGED legacy
    \/ UploadChunk /\ UNCHANGED legacy
    \/ UploadResponse /\ UNCHANGED legacy
    \/ UploadEnd /\ UNCHANGED legacy
    \/ Call_uninstall /\ UNCHANGED legacy
    \/ UninstallResolve /\ UNCHANGED legacy
    \/ Call_is_installed /\ UNCHANGED legacy
    \/ QueryResolve /\ UNCHANGED legacy
    \/ Submit /\ UNCHANGED legacy
    \/ Poll /\ UNCHANGED legacy
    \/ CheckForDependency /\ UNCHANGED legacy
    \/ QueryFilter /\ UNCHANGED legacy

SpecClient == InitClient /\ [][NextClient]_vars

(* -------------------- ManagementClient.make_request ------------------- *)
InitRequest ==
    /\ InitNoFile
    /\ op = "none"
    /\ pc = "idle"
    /\ InitUploadLocals
    /\ InitPollLocals
    /\ component \in Components
    /\ version = NoVersion
    /\ download_url = NoUrl
    /\ download_pkg = NoPkg
    /\ downloads = << >>
    /\ steps = << >>
    /\ t_metadata = << >>
    /\ version_arg = NoArg
    /\ logger = "None"
    /\ component_dependencies = << >>
    /\ warnings = << >>
    /\ meta_latest = EmptyString
    /\ component_package_name = EmptyString
    /\ query_response = << >>
    /\ kwargs \in KwargsSet
    /\ sent = NoRequest
    /\ InitOut

NextRequest ==
    \/ Call_make_request /\ UNCHANGED legacy
    \/ RequestResponse /\ UNCHANGED legacy

SpecRequest == InitRequest /\ [][NextRequest]_vars

(* --------- OperationClient and Operation under one environment ------- *)
InitEquiv ==
    /\ \E in \in UploadInputs :
         /\ artifact_size = in[1]
         /\ max_chunk = in[2]
    /\ file_exists \in BOOLEAN
    /\ file_name = NoPath
    /\ op = "none"
    /\ pc = "idle"
    /\ InitUploadLocals
    /\ InitPollLocals
    /\ component \in Components
    /\ version = NoVersion
    /\ download_url = NoUrl
    /\ download_pkg = NoPkg
    /\ downloads = << >>
    /\ steps = << >>
    /\ t_metadata = << >>
    /\ version_arg = NoArg
    /\ logger = "None"
    /\ component_dependencies = << >>
    /\ warnings = << >>
    /\ InitExtra
    /\ fault = "none"
    /\ raised = NoError
    /\ result = NoResult
    /\ legacy = [LegacyIdle EXCEPT !.file_exists = file_exists]

NextEquiv ==
    \/ Call_upload_rpm /\ LegacyFollows
    \/ UploadOpen /\ LegacyFollows
    \/ UploadChunk /\ LegacyFollows
    \/ UploadResponse /\ LegacyFollows
    \/ UploadEnd /\ LegacyFollows
    \/ Call_install_rpm /\ LegacyFollows
    \/ Call_uninstall_rpm /\ LegacyFollows
    \/ Call_check_rpm_task_status /\ LegacyFollows
    \/ Submit /\ LegacyFollows
    \/ Poll /\ LegacyFollows

SpecEquiv == InitEquiv /\ [][NextEquiv]_vars

(* ------------------- task submission and polling only ----------------- *)
InitPoll ==
    /\ InitNoFile
    /\ op = "none"
    /\ pc = "idle"
    /\ InitUploadLocals
    /\ InitPollLocals
    /\ InitCtx
    /\ InitOut

NextPoll ==
    \/ Call_check_rpm_task_status /\ UNCHANGED legacy
    \/ Call_install_rpm /\ UNCHANGED legacy
    \/ Call_uninstall_rpm /\ UNCHANGED legacy
    \/ Submit /\ UNCHANGED legacy
    \/ Poll /\ UNCHANGED legacy

SpecPoll == InitPoll /\ [][NextPoll]_vars

\* the polling loop is a running thread: while it is in the loop its next
\* iteration (a blocking request that returns or raises, then a sleep of
\* sleep_secs) does take place
SpecPollFair == InitPoll /\ [][NextPoll]_vars /\ WF_vars(Poll /\ UNCHANGED legacy)

(* ============================ properties ============================== *)

\* positions at which _upload_rpm has not yet returned
BeforeUploadReturn ==
    {"idle", "resolve", "download", "legacy_resolve", "upload_open", "upload_loop", "upload_wait"}

\* _upload_rpm returned normally: the file was opened and every chunk request succeeded
UploadReturned ==
    /\ pc \notin BeforeUploadReturn
    /\ fault \notin {"resolve", "download", "no_latest", "no_version", "open", "chunk"}

AllChunksOk == \A i \in 1..Len(uploads) : uploads[i].ok

\* the ranges [range_start, range_last] of the requests in log, in order, tile [0, size)
Tiles(log, size) ==
    /\ (Len(log) = 0) <=> (size = 0)
    /\ Len(log) > 0 => log[1].range_start = 0
    /\ \A i \in 1..Len(log) : log[i].range_start <= log[i].range_last
    /\ \A i \in 1..(Len(log) - 1) : log[i + 1].range_start = log[i].range_last + 1
    /\ Len(log) > 0 => log[Len(log)].range_last + 1 = size

\* C1: after a successful _upload_rpm the byte ranges of its chunk requests,
\* in the order sent, exactly tile [0, S): the first starts at 0, each next one
\* starts right after the previous one ended, and the last ends at S.
Thm_C1 == UploadReturned => Tiles(uploads, artifact_size)

\* a successful upload of several chunks whose last chunk is short
Wit_C1 ==
    /\ UploadReturned
    /\ Len(uploads) >= 2
    /\ uploads[Len(uploads)].body_len < max_chunk

\* C2 (state part): when the call ended because a chunk request raised, or
\* ended with delete_file false, the file is still on disk.
C2_StillThere ==
    (pc = "done" /\ op = "_upload_rpm" /\ (fault = "chunk" \/ (fault = "none" /\ ~delete_file)))
        => file_exists

\* C2 (step part): the file disappears only in a step taken with delete_file
\* true, after every chunk request succeeded and the whole file was sent.
C2_RemovedOnlyAfterSuccess ==
    (file_exists /\ ~file_exists') =>
        /\ delete_file
        /\ AllChunksOk
        /\ start_index = file_size

\* C2: _upload_rpm removes the local file only when delete_file is true and
\* every chunk request succeeded; after a failed chunk or with delete_file
\* false the file still exists when the call ends.
Thm_C2 == [](C2_StillThere) /\ [][C2_RemovedOnlyAfterSuccess]_vars

\* an upload with delete_file true that failed on a later chunk and kept the file
Wit_C2 ==
    /\ pc = "done"
    /\ op = "_upload_rpm"
    /\ fault = "chunk"
    /\ delete_file
    /\ Len(uploads) >= 2
    /\ file_exists

(* ------------------------------ the poller ---------------------------- *)

\* _check_rpm_task_status was left on a response of the device
PollerLeft == polls > 0 /\ pc # "poll" /\ fault # "poll"

\* _check_rpm_task_status returned
PollerReturned == PollerLeft /\ fault \notin {"task_failed", "timeout"}

CE_C4 ==
    (fault = "timeout") =>
        /\ polls = max_count + 1
        /\ sleeps = max_count * sleep_secs

\* the methods that create a task and wait for it
SubmitAndWait == {"_install_rpm", "_uninstall_rpm"}

\* C5: when the device reports k non-terminal statuses and then FINISHED, the
\* submit-and-wait sequence sends exactly one creation request, then exactly
\* k + 1 polls, all of them to PKG_MGMT_URI/<id of the created task>, and
\* succeeds.
Thm_C5 ==
    (op \in SubmitAndWait /\ PollerReturned) =>
        /\ Len(creates) = 1
        /\ creates[1] = [uri |-> PKG_MGMT_URI, method |-> "POST", body |-> package_body]
        /\ polls = reports + 1
        /\ poll_uris = {Append(PKG_MGMT_URI, device_task)}
        /\ fault = "none"
        /\ result = NoneResult

\* RUNNING or PENDING three times, then FINISHED: success after four polls
Wit_C5 ==
    /\ op = "_install_rpm"
    /\ PollerReturned
    /\ reports = 3
    /\ polls = 4
    /\ sleeps = 3

\* C6: the error raised for a FAILED task and the error raised for an
\* exceeded poll ceiling are never the same error, whatever errorMessage the
\* device reported.
CE_C6 ==
    /\ (fault = "task_failed") => raised # MaxCountError
    /\ (fault = "timeout") => \A m \in ErrorMessages : raised # TaskFailedError(m)

(* ------------------------------- install ------------------------------ *)

InstallOrder == <<"resolve", "download", "upload", "submit", "poll">>

IsPrefix(a, b) == Len(a) <= Len(b) /\ \A i \in 1..Len(a) : a[i] = b[i]

\* the stage in which each raise happens
StageOf(f) ==
    CASE f = "resolve" -> "resolve"
      [] f = "download" -> "download"
      [] f \in {"open", "chunk"} -> "upload"
      [] f = "submit" -> "submit"
      [] f \in {"poll", "task_failed", "timeout"} -> "poll"

\* the error each raise produces
ErrorOf(f) ==
    CASE f = "resolve" -> MetadataError
      [] f = "download" -> DownloadError
      [] f = "open" -> FileNotFoundError
      [] f \in {"chunk", "submit", "poll"} -> TransportError
      [] f = "task_failed" -> TaskFailedError(response.errorMessage)
      [] f = "timeout" -> MaxCountError

\* C7: install goes resolve, download, upload, submit INSTALL, poll, in that
\* order; it returns {component, version} only after the download succeeded,
\* every chunk request succeeded, the INSTALL task was submitted and a poll
\* returned FINISHED; when a stage fails no later stage is entered (INSTALL is
\* never submitted after a failed download or chunk) and install raises that
\* stage's error.
Thm_C7 ==
    op = "install" =>
        /\ IsPrefix(steps, InstallOrder)
        /\ result # NoResult =>
              /\ steps = InstallOrder
              /\ fault = "none"
              /\ Len(downloads) = 1 /\ downloads[1].ok
              /\ downloads[1] = [url |-> download_url, dest |-> file_name, ok |-> TRUE]
              /\ AllChunksOk /\ Tiles(uploads, artifact_size)
              /\ Len(creates) = 1
              /\ creates[1].body = InstallBody(Append(DOWNLOADS_DIR, BaseName(file_name)))
              /\ response.status = "FINISHED"
              /\ result = ComponentVersion(component, version)
        /\ fault # "none" =>
              /\ pc = "done"
              /\ result = NoResult
              /\ steps # << >> /\ steps[Len(steps)] = StageOf(fault)
              /\ raised = ErrorOf(fault)
        /\ Len(creates) > 0 =>
              /\ Len(downloads) = 1 /\ downloads[1].ok
              /\ AllChunksOk /\ Tiles(uploads, artifact_size)
        /\ Len(uploads) > 0 => (Len(downloads) = 1 /\ downloads[1].ok)

\* an install that returned after a multi-chunk upload and several polls
Wit_C7 ==
    /\ op = "install"
    /\ result = ComponentVersion(component, version)
    /\ Len(uploads) >= 2
    /\ polls >= 3

(* ------------------------- Operation and 'latest' --------------------- *)

\* the artifact of the version flagged latest
LatestArtifact == FlaggedLatest(t_metadata)[1].downloadUrl

\* C8: install called with 'latest', or without a version, on metadata that
\* flags a single version as latest, resolves to that version: the URL that
\* is downloaded, the file that is uploaded and the path named in the INSTALL
\* operation are all those of that version's artifact.
Thm_C8 ==
    (/\ op = "legacy_install"
     /\ version_arg \in {"latest", NoArg}
     /\ Len(FlaggedLatest(t_metadata)) = 1
     /\ Len(steps) > 0) =>
        /\ fault # "no_latest" /\ fault # "no_version"
        /\ download_url = LatestArtifact
        /\ \A i \in 1..Len(downloads) :
              /\ downloads[i].url = LatestArtifact
              /\ downloads[i].dest = Append(TMP_DIR, BaseName(LatestArtifact))
        /\ \A i \in 1..Len(uploads) :
              uploads[i].uri = Append(UPLOAD_URI, BaseName(LatestArtifact))
        /\ \A i \in 1..Len(creates) :
              creates[i].body = InstallBody(Append(DOWNLOADS_DIR, BaseName(LatestArtifact)))
        /\ result # NoResult =>
              /\ Len(downloads) = 1
              /\ Len(creates) = 1
              /\ version_arg = NoArg => result.version = FlaggedLatest(t_metadata)[1].version

\* install('latest') succeeded on metadata whose second entry is the latest one
Wit_C8 ==
    /\ op = "legacy_install"
    /\ version_arg = "latest"
    /\ Len(t_metadata) = 2
    /\ ~t_metadata[1].latest /\ t_metadata[2].latest
    /\ Len(uploads) >= 2
    /\ result # NoResult

\* C9: install or uninstall called with version 'latest' returns the concrete
\* version resolved from the metadata, never the string 'latest'.
CE_C9 ==
    (/\ op \in {"legacy_install", "legacy_uninstall"}
     /\ version_arg = "latest"
     /\ result # NoResult) =>
        /\ result.version # "latest"
        /\ result.version = GetLatestVersion(t_metadata)

(* ------------------------ the dependency check ------------------------ *)

\* _check_for_dependency got the dependents from the metadata client
DependenciesFetched ==
    /\ op = "uninstall"
    /\ pc = "done"
    /\ Len(steps) > 0 /\ steps[Len(steps)] = "dependency"
    /\ fault # "dependencies"

Warned(n) == \E i \in 1..Len(warnings) : warnings[i] = n

\* C10: after a successful UNINSTALL task a warning naming a dependent is
\* emitted exactly when all of that dependent's version constraints hold
\* against the uninstalled version, for each declared dependent.
CE_C10 ==
    DependenciesFetched =>
        \A n \in 1..Len(component_dependencies) :
            Warned(n) <=> AllConstraintsMatch(version, component_dependencies[n])

\* C11: once the UNINSTALL task has FINISHED and the dependents were
\* fetched, uninstall returns {component, version}, with or without a
\* warning and with or without a logger; emitting the warning never raises.
CE_C11 ==
    DependenciesFetched =>
        /\ fault = "none"
        /\ raised = NoError
        /\ result = ComponentVersion(component, version)


(* ---------------------------- is_installed ---------------------------- *)
Range(f) == {f[i] : i \in DOMAIN f}

\* is_installed examined the queryResponse of its FINISHED task
QueryAnswered == op = "is_installed" /\ pc = "done" /\ "filter" \in Range(steps)

\* the same with the dots taken literally
GroupEndsLiteralDots(s, i) ==
    {t \in GroupEnds(s, i) : s[t[1] + 1] = "." /\ s[t[2] + 1] = "."}

\* v is three groups of digits separated by two dots, and nothing else
IsNumericVersion(v) == \E t \in GroupEndsLiteralDots(v, 1) : t[3] = Len(v)

\* C12: once the QUERY task finished (and the latest version was obtained),
\* is_installed returns installed = false without raising when zero or several
\* package names contain the component package name, and installed = true with
\* the numeric version found in the package name when exactly one does.
CE_C12 ==
    (QueryAnswered /\ fault # "latest") =>
        LET matching == MatchingPackages(query_response, component_package_name)
        IN  /\ fault = "none"
            /\ raised = NoError
            /\ IF Len(matching) = 1
                 THEN /\ result.installed
                      /\ IsNumericVersion(result.installed_version)
                      /\ Contains(matching[1], result.installed_version)
                 ELSE /\ ~result.installed
                      /\ result.installed_version = EmptyString

\* is_installed returned
QueryReturned == QueryAnswered /\ fault = "none"

\* C13: every result is_installed returns carries as latest_version what the
\* metadata client answers, whatever the query found: one match, none, several.
Thm_C13 ==
    QueryReturned =>
        /\ result.kind = "version_data"
        /\ result.latest_version = meta_latest

\* reached: a result for an installed component whose version is not the latest
Wit_C13 ==
    /\ QueryReturned
    /\ result.installed
    /\ result.installed_version # result.latest_version
    /\ result.latest_version = meta_latest


(* ------------------------- chunks, one at a time ---------------------- *)
\* C15 (state part): at most one chunk request is outstanding; a request is
\* outstanding only while every earlier one was answered with success, and it
\* starts where the acknowledged bytes end; when a chunk request fails the
\* call ends with that transport error, nothing outstanding, the rest unsent.
C15_OneAtATime ==
    /\ Cardinality(in_flight) <= 1
    /\ \A req \in in_flight :
         /\ pc = "upload_wait"
         /\ AllChunksOk
         /\ req.range_start = start_index
    /\ \A i \in 1..(Len(uploads) - 1) : uploads[i].ok
    /\ pc = "upload_loop" => AllChunksOk
    /\ (fault = "chunk") =>
         /\ pc = "done"
         /\ raised = TransportError
         /\ in_flight = {}
         /\ ~uploads[Len(uploads)].ok

\* C15 (step part): after a failed chunk request no further chunk is sent
C15_NothingAfterFailure ==
    (fault = "chunk") => (uploads' = uploads /\ in_flight' = in_flight)

\* C15: chunk N+1 is requested only after chunk N returned success, one
\* request at a time; a failed chunk ends the upload with the transport error.
Thm_C15 == [](C15_OneAtATime) /\ [][C15_NothingAfterFailure]_vars

\* reached: the second chunk failed after the first succeeded, bytes left unsent
Wit_C15 ==
    /\ fault = "chunk"
    /\ Len(uploads) = 2
    /\ uploads[1].ok
    /\ uploads[2].range_start + uploads[2].body_len < file_size

(* --------------------------- the chunk headers ------------------------ *)
\* endOffset of the chunk starting at start: start + C for a full-size chunk,
\* S for the final short one
EndOffset(start, S, C) == IF start + C <= S THEN start + C ELSE S

\* req is the request of chunk i (from 0) of a file of S bytes in chunks of C
IsChunk(req, i, S, C) ==
    /\ req.range_start = i * C
    /\ req.range_last = EndOffset(i * C, S, C) - 1
    /\ req.range_total = S
    /\ req.content_length = EndOffset(i * C, S, C)
    /\ req.body_len = EndOffset(i * C, S, C) - i * C
    /\ req.content_type = "application/octet-stream"

\* the number of chunks of a file of S bytes in chunks of C
NumChunks(S, C) == (S + C - 1) \div C

\* C16: chunk i carries Content-Range i*C - (endOffset-1) / S, Content-Length
\* endOffset and endOffset - i*C body bytes, also when S is a multiple of C;
\* 2.5 MiB in 1 MiB chunks gives the three ranges 0-1048575, 1048576-2097151,
\* 2097152-2621439 of 2621440.
Thm_C16 ==
    /\ \A i \in 1..Len(uploads) : IsChunk(uploads[i], i - 1, file_size, max_chunk)
    /\ \A req \in in_flight : IsChunk(req, Len(uploads), file_size, max_chunk)
    /\ UploadReturned => Len(uploads) = NumChunks(file_size, max_chunk)
    /\ (UploadReturned /\ file_size = 2621440 /\ max_chunk = 1048576) =>
         /\ Len(uploads) = 3
         /\ <<uploads[1].range_start, uploads[1].range_last>> = <<0, 1048575>>
         /\ <<uploads[2].range_start, uploads[2].range_last>> = <<1048576, 2097151>>
         /\ <<uploads[3].range_start, uploads[3].range_last>> = <<2097152, 2621439>>
         /\ \A i \in 1..3 : uploads[i].range_total = 2621440

\* reached: the 2.5 MiB file uploaded in 1 MiB chunks
Wit_C16 ==
    /\ UploadReturned
    /\ file_size = 2621440
    /\ max_chunk = MAX_CHUNK
    /\ Len(uploads) = 3
    /\ uploads[3].content_length = 2621440


(* ------------------------------ no retries ---------------------------- *)
\* the raises of the requests an operation sends: download, chunk upload,
\* task submission, status poll
TransportFaults == {"download", "chunk", "submit", "poll"}

\* C14 (state part): every byte range is requested at most once, in rising
\* order; the artifact is downloaded and the task submitted at most once; a
\* transport error ends the call.
C14_AtMostOnce ==
    /\ \A i, j \in 1..Len(uploads) :
         i < j => uploads[i].range_start < uploads[j].range_start
    /\ \A req \in in_flight :
         \A i \in 1..Len(uploads) : uploads[i].range_start < req.range_start
    /\ Cardinality(in_flight) <= 1
    /\ Len(downloads) <= 1
    /\ Len(creates) <= 1
    /\ fault \in TransportFaults => (pc = "done" /\ in_flight = {})

\* C14 (step part): after a transport error the call sends nothing more
C14_NothingAfterError ==
    fault \in TransportFaults =>
        /\ downloads' = downloads
        /\ uploads' = uploads
        /\ in_flight' = in_flight
        /\ creates' = creates
        /\ polls' = polls

\* C14: within one install, uninstall or is_installed call no request is
\* retried: each byte range and the task submission go out at most once, and
\* nothing is sent after a transport error.
Thm_C14 == [](C14_AtMostOnce) /\ [][C14_NothingAfterError]_vars

\* reached: an install whose submission raised after a two-chunk upload
Wit_C14 ==
    /\ op = "install"
    /\ fault = "submit"
    /\ Len(uploads) = 2
    /\ Len(creates) = 1
    /\ polls = 0


(* --------------------------- polling terminates ----------------------- *)
\* C17: whatever statuses the device reports and whether a poll request
\* returns or raises, _check_rpm_task_status makes at most max_count + 2 poll
\* requests and then has returned or raised: it never stays in the loop.
Thm_C17 ==
    /\ [](polls <= max_count + 2)
    /\ [](pc = "poll" => count <= max_count + 1)
    /\ (pc = "poll") ~> (pc = "done")

\* reached: the loop gave up after polling a task that never left PENDING/RUNNING
Wit_C17 ==
    /\ pc = "done"
    /\ fault = "timeout"
    /\ raised = MaxCountError
    /\ polls = max_count + 2
    /\ reports = polls

(* ------------------ uninstall: the check comes last ------------------- *)
\* the raises of _uninstall_rpm: submission, FAILED task, timeout, poll request
UninstallTaskFaults == {"submit", "task_failed", "timeout", "poll"}

\* C18 (state part): the dependency check was entered only with a FINISHED
\* task; when _uninstall_rpm raised, uninstall ended with that error, the
\* dependents were not fetched and nothing was warned about.
C18_CheckOnlyAfterFinished ==
    /\ (op = "uninstall" /\ (pc = "check_dependency" \/ "dependency" \in Range(steps))) =>
          /\ Len(creates) = 1
          /\ creates[1].body.operation = "UNINSTALL"
          /\ polls >= 1
          /\ response.status = "FINISHED"
    /\ (op = "uninstall" /\ fault \in UninstallTaskFaults) =>
          /\ pc = "done"
          /\ raised = ErrorOf(fault)
          /\ result = NoResult
          /\ "dependency" \notin Range(steps)
          /\ component_dependencies = << >>
          /\ warnings = << >>

\* C18 (step part): the dependents are fetched in a step taken with the task
\* FINISHED and no error raised
C18_FetchAfterFinished ==
    (Len(steps') > Len(steps) /\ steps'[Len(steps')] = "dependency") =>
        /\ response.status = "FINISHED"
        /\ fault = "none"

\* C18: in uninstall the dependency check runs only after the UNINSTALL task
\* reached FINISHED; a failed submission, a FAILED task or a timeout is raised
\* with the dependents never fetched and no warning emitted.
Thm_C18 == [](C18_CheckOnlyAfterFinished) /\ [][C18_FetchAfterFinished]_vars

\* reached: an uninstall whose task reported FAILED after some polls
Wit_C18 ==
    /\ op = "uninstall"
    /\ pc = "done"
    /\ fault = "task_failed"
    /\ polls >= 2
    /\ component_dependencies = << >>
    /\ warnings = << >>


(* ---------------------------- request headers ------------------------- *)
\* C19: in the request make_request sends, every header the caller supplied
\* has the caller's value, whatever the body and body_content_type.
CE_C19 ==
    (op = "make_request" /\ pc # "idle") =>
        \A n \in DOMAIN kwargs.headers :
            /\ n \in DOMAIN sent.headers
            /\ sent.headers[n] = kwargs.headers[n]


(* ------------------- the two implementations agree -------------------- *)
\* C20: run on the same file with the same transport outcomes and the same
\* task statuses, the Operation and the OperationClient are at the same point
\* of _upload_rpm, _install_rpm/_uninstall_rpm and _check_rpm_task_status,
\* have sent the same requests in the same order (URI, method, headers,
\* body), have removed or kept the file alike, and have ended alike: both
\* returned, or both raised the same error.
Thm_C20 ==
    /\ legacy.op = op
    /\ legacy.pc = pc
    /\ legacy.uploads = uploads
    /\ legacy.in_flight = in_flight
    /\ legacy.creates = creates
    /\ legacy.polls = polls
    /\ legacy.poll_uris = poll_uris
    /\ legacy.sleeps = sleeps
    /\ legacy.file_exists = file_exists
    /\ legacy.fault = fault
    /\ legacy.raised = raised
    /\ (legacy.result = NoResult) <=> (result = NoResult)
    /\ (op # "_check_rpm_task_status") => (legacy.result = result)
    /\ (op = "_check_rpm_task_status" /\ result # NoResult) =>
          /\ result.value.status = "FINISHED"
          /\ legacy.result.value = result.value.status

\* reached: both gave up on a task that never left PENDING/RUNNING, after an
\* _install_rpm submission
Wit_C20 ==
    /\ op = "_install_rpm"
    /\ pc = "done"
    /\ legacy.pc = "done"
    /\ legacy.fault = "timeout"
    /\ fault = "timeout"
    /\ legacy.polls = max_count + 2
    /\ Len(legacy.creates) = 1


(* ------------------ terminal status before the ceiling ---------------- *)
\* C21: in both pollers a terminal status is honoured on every poll, the one
\* made with the counter already above max_count included: FINISHED returns,
\* FAILED raises the server's errorMessage, and 'Max count exceeded' is raised
\* only on a poll whose status is neither FINISHED nor FAILED.
Thm_C21 ==
    /\ (polls > 0 /\ response.status = "FINISHED") =>
          /\ pc = "done"
          /\ fault = "none"
          /\ result # NoResult
    /\ (polls > 0 /\ response.status = "FAILED") =>
          /\ pc = "done"
          /\ fault = "task_failed"
          /\ raised.msg = response.errorMessage
    /\ (fault = "timeout") =>
          /\ response.status \in NonTerminal
          /\ count = max_count + 1
          /\ raised.msg = "Max count exceeded"
    /\ (legacy.polls > 0 /\ legacy.status_response.status = "FINISHED") =>
          /\ legacy.pc = "done"
          /\ legacy.fault = "none"
          /\ legacy.result # NoResult
    /\ (legacy.polls > 0 /\ legacy.status_response.status = "FAILED") =>
          /\ legacy.pc = "done"
          /\ legacy.fault = "task_failed"
          /\ legacy.raised.msg = legacy.status_response.errorMessage
    /\ (legacy.fault = "timeout") =>
          /\ legacy.status_response.status \in NonTerminal
          /\ legacy.count = Legacy_max_count + 1
          /\ legacy.raised.msg = "Max count exceeded"

\* reached: FAILED arrived on the poll made with the counter above max_count,
\* and both pollers raised the server's message, not the timeout
Wit_C21 ==
    /\ count = max_count + 1
    /\ response.status = "FAILED"
    /\ fault = "task_failed"
    /\ raised.msg = "Package not found"
    /\ legacy.count = Legacy_max_count + 1
    /\ legacy.fault = "task_failed"
    /\ legacy.raised.msg = "Package not found"


(* --------------------- installed and installed_version ---------------- *)
\* C22: in every result is_installed returns, installed says exactly that
\* installed_version is not empty; when installed, exactly one listed package
\* name contains the component package name and installed_version is the
\* version text extracted from that name (a piece of it that starts and ends
\* with a digit); when not installed, the matches are none or several.
Thm_C22 ==
    QueryReturned =>
        LET matching == MatchingPackages(query_response, component_package_name)
            v == result.installed_version
        IN  /\ result.installed <=> (v # EmptyString)
            /\ result.installed <=> (Len(matching) = 1)
            /\ result.installed =>
                  /\ v = GetVersionNumberFromPackageName(matching[1])
                  /\ Contains(matching[1], v)
                  /\ v[1] \in Digits /\ v[Len(v)] \in Digits
                  /\ \A i \in 1..Len(query_response) :
                        Contains(query_response[i], component_package_name)
                            => query_response[i] = matching[1]

\* reached: one of two listed packages is the component's, its version is returned
Wit_C22 ==
    /\ QueryReturned
    /\ Len(query_response) = 2
    /\ ~Contains(query_response[1], component_package_name)
    /\ result.installed
    /\ result.installed_version = <<"1", ".", "2", ".", "0">>

(* ----------------------------- the empty file ------------------------- *)
\* C23 (state part): for a file of size 0 no chunk request is ever sent; once
\* _upload_rpm returned inside install the local file is gone, and the INSTALL
\* task is submitted all the same.
C23_NothingSent ==
    (op = "install" /\ artifact_size = 0) =>
        /\ uploads = << >>
        /\ in_flight = {}
        /\ pc # "upload_wait"
        /\ fault \notin {"open", "chunk"}
        /\ pc \in {"submit", "poll"} => (delete_file /\ ~file_exists /\ fault = "none")
        /\ Len(creates) > 0 =>
              /\ ~file_exists
              /\ creates[1].body = InstallBody(Append(DOWNLOADS_DIR, download_pkg))

\* C23 (step part): from the loop of _upload_rpm on the empty file the only
\* step removes the file, returns, and takes install to its submission
C23_ReturnsAndGoesOn ==
    (op = "install" /\ artifact_size = 0 /\ pc = "upload_loop") =>
        /\ pc' = "submit"
        /\ ~file_exists'
        /\ fault' = "none"
        /\ uploads' = << >>

\* C23: _upload_rpm of a file of size 0 sends no upload request, removes the
\* file (delete_file true) and returns normally; install then submits the
\* INSTALL operation although no chunk was sent.
Thm_C23 == [](C23_NothingSent) /\ [][C23_ReturnsAndGoesOn]_vars

\* reached: an install of an empty artifact that returned with no chunk sent
Wit_C23 ==
    /\ op = "install"
    /\ artifact_size = 0
    /\ uploads = << >>
    /\ ~file_exists
    /\ Len(creates) = 1
    /\ creates[1].body.operation = "INSTALL"
    /\ result = ComponentVersion(component, version)

====
